---- MODULE Spec2Model ----
(***************************************************************************)
(* Model of src/core/reducer.js: createGameReducer (initial state, the     *)
(* default turn flow GameFlow, the GameReducer it returns) driven by the   *)
(* actions a Redux store feeds to it.                                      *)
(***************************************************************************)
EXTENDS Integers, Sequences, FiniteSets, TLC

VARIABLES
    params,      \* the {game, numPlayers} argument of createGameReducer
    game,        \* the game definition captured by createGameReducer
    numPlayers,  \* the numPlayers captured by createGameReducer
    initial,     \* the `initial` object of the closure
    state,       \* the state held by the store (last value the reducer returned)
    prev,        \* the state argument of the last reducer call
    action,      \* the action argument of the last reducer call
    restored,    \* TRUE once a RESTORE action has been processed
    applied,     \* the MAKE_MOVE / END_TURN actions processed, in order, kept
                 \* while no RESTORE has been processed
    calls        \* the dispatcher invocations {name, args}, in order, kept
                 \* while no RESTORE has been processed

vars == <<params, game, numPlayers, initial, state, prev, action, restored,
          applied, calls>>

----------------------------------------------------------------------------
(* Bounds of the model. *)

MaxPlayers == 3      \* numPlayers arguments range over 0..MaxPlayers
MaxId == 5           \* MAKE_MOVE / END_TURN are fed only while _id < MaxId
MaxRestoreLen == 1   \* RESTORE payloads: states at most this many actions from initial

----------------------------------------------------------------------------
(* JavaScript values. *)

Null == "null"                      \* null
Undefined == [undefined |-> TRUE]   \* undefined (an absent argument)
EmptyObject == <<>>                 \* {}

Digits == <<"0", "1", "2", "3", "4", "5", "6", "7", "8", "9">>

\* n + "" for a non-negative integer n
RECURSIVE NumToStr(_)
NumToStr(n) ==
    IF n < 10 THEN Digits[n + 1]
    ELSE NumToStr(n \div 10) \o Digits[(n % 10) + 1]

\* +s for the decimal string s of a non-negative integer
StrToNum(s) == CHOOSE n \in 0..99 : NumToStr(n) = s

\* Action type tags of ./action-types
MAKE_MOVE == "MAKE_MOVE"
END_TURN == "END_TURN"
RESTORE == "RESTORE"

\* ActionCreators.makeMove(move)
makeMove(move) == [type |-> MAKE_MOVE, move |-> move]

----------------------------------------------------------------------------
(* Game definitions handed to createGameReducer.  The functions of a       *)
(* definition are named by tags and applied by the operators below.        *)

WinScore == 10

\* the definition substituted when no game is passed
DefaultGame ==
    [setup |-> "empty", names |-> <<>>, reducer |-> "identity",
     victory |-> "never", flow |-> "absent"]

\* a game with a score, won by player "0" once the score reaches WinScore
ScoreGame ==
    [setup |-> "score", names |-> <<"add", "reset">>, reducer |-> "score",
     victory |-> "score", flow |-> "absent"]

\* the same game bringing its own turn flow
ReverseGame == [ScoreGame EXCEPT !.flow = "reverse"]

GameArgs == {Undefined, ScoreGame, ReverseGame}

\* game.setup(numPlayers)
ApplySetup(g, n) ==
    IF g.setup = "empty" THEN EmptyObject ELSE [score |-> 0]

\* game.reducer(G, move, ctx)
ApplyReducer(g, G, move, ctx) ==
    IF g.reducer = "identity" THEN G
    ELSE IF move.type = "add" THEN [G EXCEPT !.score = @ + move.args[1]]
    ELSE IF move.type = "reset" THEN [G EXCEPT !.score = 0]
    ELSE G

\* game.victory(G, ctx)
ApplyVictory(g, G, ctx) ==
    IF g.victory = "never" THEN Null
    ELSE IF G.score >= WinScore THEN "0" ELSE Null

\* the moves the host makes: {type: name, args}
Moves == {[type |-> "add", args |-> <<5>>], [type |-> "reset", args |-> <<>>]}

----------------------------------------------------------------------------
(* createGameReducer *)

\* const deepCopy = obj => JSON.parse(JSON.stringify(obj)), on a state object
deepCopy(obj) ==
    [G |-> [k \in DOMAIN obj.G |-> obj.G[k]],
     ctx |-> [turn |-> obj.ctx.turn,
              currentPlayer |-> obj.ctx.currentPlayer,
              numPlayers |-> obj.ctx.numPlayers,
              winner |-> obj.ctx.winner],
     log |-> [i \in 1..Len(obj.log) |-> obj.log[i]],
     _id |-> obj._id,
     _initial |-> [k \in DOMAIN obj._initial |-> obj._initial[k]]]

\* if (!game) game = {...}
GameOrDefault(gameArg) == IF gameArg = Undefined THEN DefaultGame ELSE gameArg

\* createGameReducer without the numPlayers default
NumPlayersOrDefault_NoDefault(numPlayersArg) == numPlayersArg

\* if (!numPlayers) numPlayers = 2
NumPlayersOrDefault(numPlayersArg) == IF numPlayersArg = 0 THEN 2 ELSE numPlayersArg

\* const initial = {...} before the snapshot is taken
InitialObject(g, n) ==
    [G |-> ApplySetup(g, n),
     ctx |-> [turn |-> 0, currentPlayer |-> "0", numPlayers |-> n, winner |-> Null],
     log |-> <<>>,
     _id |-> 0,
     _initial |-> EmptyObject]

\* createGameReducer leaving _initial empty
InitialWithSnapshot_NoCopy(g, n) == InitialObject(g, n)

\* initial._initial = deepCopy(initial)
InitialWithSnapshot(g, n) ==
    [InitialObject(g, n) EXCEPT !._initial = deepCopy(InitialObject(g, n))]

\* if (!game.flow) game.flow = GameFlow
InstallFlow(g) == IF g.flow = "absent" THEN [g EXCEPT !.flow = "GameFlow"] ELSE g

----------------------------------------------------------------------------
(* GameFlow: the default turn flow, maintains ctx. *)

\* GameFlow without the modulo
GameFlow_NoModulo(ctx, a, G) ==
    IF a.type = END_TURN
    THEN [ctx EXCEPT
            !.currentPlayer = NumToStr(StrToNum(ctx.currentPlayer) + 1),
            !.turn = ctx.turn + 1,
            !.winner = ApplyVictory(game, G, ctx)]
    ELSE ctx

\* GameFlow with the modulo off by one
GameFlow_OffByOne(ctx, a, G) ==
    IF a.type = END_TURN
    THEN [ctx EXCEPT
            !.currentPlayer =
                NumToStr((StrToNum(ctx.currentPlayer) + 1) % (ctx.numPlayers + 1)),
            !.turn = ctx.turn + 1,
            !.winner = ApplyVictory(game, G, ctx)]
    ELSE ctx

\* GameFlow keeping a winner once there is one
GameFlow_KeepWinner(ctx, a, G) ==
    IF a.type = END_TURN
    THEN [ctx EXCEPT
            !.currentPlayer =
                NumToStr((StrToNum(ctx.currentPlayer) + 1) % ctx.numPlayers),
            !.turn = ctx.turn + 1,
            !.winner = IF ctx.winner # Null THEN ctx.winner
                       ELSE ApplyVictory(game, G, ctx)]
    ELSE ctx

\* GameFlow building the new ctx from its three fields only
GameFlow_NoSpread(ctx, a, G) ==
    IF a.type = END_TURN
    THEN [currentPlayer |->
              NumToStr((StrToNum(ctx.currentPlayer) + 1) % ctx.numPlayers),
          turn |-> ctx.turn + 1,
          winner |-> ApplyVictory(game, G, ctx)]
    ELSE ctx

\* GameFlow taking the turn number from the player index
GameFlow_TurnFromPlayer(ctx, a, G) ==
    IF a.type = END_TURN
    THEN [ctx EXCEPT
            !.currentPlayer =
                NumToStr((StrToNum(ctx.currentPlayer) + 1) % ctx.numPlayers),
            !.turn = StrToNum(ctx.currentPlayer) + 1,
            !.winner = ApplyVictory(game, G, ctx)]
    ELSE ctx

\* GameFlow not updating the winner
GameFlow_NoVictory(ctx, a, G) ==
    IF a.type = END_TURN
    THEN [ctx EXCEPT
            !.currentPlayer =
                NumToStr((StrToNum(ctx.currentPlayer) + 1) % ctx.numPlayers),
            !.turn = ctx.turn + 1]
    ELSE ctx

GameFlow(ctx, a, G) ==
    IF a.type = END_TURN
    THEN [ctx EXCEPT
            !.currentPlayer =
                NumToStr((StrToNum(ctx.currentPlayer) + 1) % ctx.numPlayers),
            !.turn = ctx.turn + 1,
            !.winner = ApplyVictory(game, G, ctx)]
    ELSE ctx

\* a flow supplied by the game: players in reverse order, winner left alone
ReverseFlow(ctx, a, G) ==
    IF a.type = END_TURN
    THEN [ctx EXCEPT
            !.currentPlayer =
                NumToStr((StrToNum(ctx.currentPlayer) + ctx.numPlayers - 1)
                            % ctx.numPlayers),
            !.turn = ctx.turn + 1]
    ELSE ctx

\* game.flow(ctx, action, G)
ApplyFlow(ctx, a, G) ==
    IF game.flow = "GameFlow" THEN GameFlow(ctx, a, G) ELSE ReverseFlow(ctx, a, G)

----------------------------------------------------------------------------
(* GameReducer: (state = initial, action) => state *)

\* GameReducer not incrementing _id at END_TURN
GameReducer_SkipId(st, a) ==
    LET s == IF st = Undefined THEN initial ELSE st IN
    CASE a.type = MAKE_MOVE ->
            [s EXCEPT !.G = ApplyReducer(game, s.G, a.move, s.ctx),
                      !._id = s._id + 1,
                      !.log = Append(s.log, a)]
      [] a.type = END_TURN ->
            [s EXCEPT !.ctx = ApplyFlow(s.ctx, a, s.G),
                      !.log = Append(s.log, a)]
      [] a.type = RESTORE -> a.state
      [] OTHER -> s

\* GameReducer logging the move instead of the action
GameReducer_LogMove(st, a) ==
    LET s == IF st = Undefined THEN initial ELSE st IN
    CASE a.type = MAKE_MOVE ->
            [s EXCEPT !.G = ApplyReducer(game, s.G, a.move, s.ctx),
                      !._id = s._id + 1,
                      !.log = Append(s.log, a.move)]
      [] a.type = END_TURN ->
            [s EXCEPT !.ctx = ApplyFlow(s.ctx, a, s.G),
                      !._id = s._id + 1,
                      !.log = Append(s.log, a)]
      [] a.type = RESTORE -> a.state
      [] OTHER -> s

\* GameReducer calling GameFlow instead of game.flow
GameReducer_DefaultFlow(st, a) ==
    LET s == IF st = Undefined THEN initial ELSE st IN
    CASE a.type = MAKE_MOVE ->
            [s EXCEPT !.G = ApplyReducer(game, s.G, a.move, s.ctx),
                      !._id = s._id + 1,
                      !.log = Append(s.log, a)]
      [] a.type = END_TURN ->
            [s EXCEPT !.ctx = GameFlow(s.ctx, a, s.G),
                      !._id = s._id + 1,
                      !.log = Append(s.log, a)]
      [] a.type = RESTORE -> a.state
      [] OTHER -> s

\* GameReducer incrementing _id at RESTORE too
GameReducer_RestoreBump(st, a) ==
    LET s == IF st = Undefined THEN initial ELSE st IN
    CASE a.type = MAKE_MOVE ->
            [s EXCEPT !.G = ApplyReducer(game, s.G, a.move, s.ctx),
                      !._id = s._id + 1,
                      !.log = Append(s.log, a)]
      [] a.type = END_TURN ->
            [s EXCEPT !.ctx = ApplyFlow(s.ctx, a, s.G),
                      !._id = s._id + 1,
                      !.log = Append(s.log, a)]
      [] a.type = RESTORE -> [a.state EXCEPT !._id = @ + 1]
      [] OTHER -> s

\* GameReducer returning initial for an unknown action
GameReducer_DefaultInitial(st, a) ==
    LET s == IF st = Undefined THEN initial ELSE st IN
    CASE a.type = MAKE_MOVE ->
            [s EXCEPT !.G = ApplyReducer(game, s.G, a.move, s.ctx),
                      !._id = s._id + 1,
                      !.log = Append(s.log, a)]
      [] a.type = END_TURN ->
            [s EXCEPT !.ctx = ApplyFlow(s.ctx, a, s.G),
                      !._id = s._id + 1,
                      !.log = Append(s.log, a)]
      [] a.type = RESTORE -> a.state
      [] OTHER -> initial

\* GameReducer numbering the state by the turn at END_TURN
GameReducer_TurnId(st, a) ==
    LET s == IF st = Undefined THEN initial ELSE st IN
    CASE a.type = MAKE_MOVE ->
            [s EXCEPT !.G = ApplyReducer(game, s.G, a.move, s.ctx),
                      !._id = s._id + 1,
                      !.log = Append(s.log, a)]
      [] a.type = END_TURN ->
            [s EXCEPT !.ctx = ApplyFlow(s.ctx, a, s.G),
                      !._id = s.ctx.turn + 1,
                      !.log = Append(s.log, a)]
      [] a.type = RESTORE -> a.state
      [] OTHER -> s

\* GameReducer putting the action in front of the log
GameReducer_Prepend(st, a) ==
    LET s == IF st = Undefined THEN initial ELSE st IN
    CASE a.type = MAKE_MOVE ->
            [s EXCEPT !.G = ApplyReducer(game, s.G, a.move, s.ctx),
                      !._id = s._id + 1,
                      !.log = <<a>> \o s.log]
      [] a.type = END_TURN ->
            [s EXCEPT !.ctx = ApplyFlow(s.ctx, a, s.G),
                      !._id = s._id + 1,
                      !.log = <<a>> \o s.log]
      [] a.type = RESTORE -> a.state
      [] OTHER -> s

\* GameReducer logging a move twice
GameReducer_DoubleLog(st, a) ==
    LET s == IF st = Undefined THEN initial ELSE st IN
    CASE a.type = MAKE_MOVE ->
            [s EXCEPT !.G = ApplyReducer(game, s.G, a.move, s.ctx),
                      !._id = s._id + 1,
                      !.log = Append(Append(s.log, a), a)]
      [] a.type = END_TURN ->
            [s EXCEPT !.ctx = ApplyFlow(s.ctx, a, s.G),
                      !._id = s._id + 1,
                      !.log = Append(s.log, a)]
      [] a.type = RESTORE -> a.state
      [] OTHER -> s

\* GameReducer not logging END_TURN
GameReducer_EndTurnUnlogged(st, a) ==
    LET s == IF st = Undefined THEN initial ELSE st IN
    CASE a.type = MAKE_MOVE ->
            [s EXCEPT !.G = ApplyReducer(game, s.G, a.move, s.ctx),
                      !._id = s._id + 1,
                      !.log = Append(s.log, a)]
      [] a.type = END_TURN ->
            [s EXCEPT !.ctx = ApplyFlow(s.ctx, a, s.G),
                      !._id = s._id + 1]
      [] a.type = RESTORE -> a.state
      [] OTHER -> s

\* GameReducer handing the whole action to game.reducer
GameReducer_WholeAction(st, a) ==
    LET s == IF st = Undefined THEN initial ELSE st IN
    CASE a.type = MAKE_MOVE ->
            [s EXCEPT !.G = ApplyReducer(game, s.G, a, s.ctx),
                      !._id = s._id + 1,
                      !.log = Append(s.log, a)]
      [] a.type = END_TURN ->
            [s EXCEPT !.ctx = ApplyFlow(s.ctx, a, s.G),
                      !._id = s._id + 1,
                      !.log = Append(s.log, a)]
      [] a.type = RESTORE -> a.state
      [] OTHER -> s

\* GameReducer ignoring moves and turn ends once there is a winner
GameReducer_HaltOnWinner(st, a) ==
    LET s == IF st = Undefined THEN initial ELSE st IN
    CASE a.type = MAKE_MOVE ->
            IF s.ctx.winner # Null THEN s
            ELSE [s EXCEPT !.G = ApplyReducer(game, s.G, a.move, s.ctx),
                           !._id = s._id + 1,
                           !.log = Append(s.log, a)]
      [] a.type = END_TURN ->
            IF s.ctx.winner # Null THEN s
            ELSE [s EXCEPT !.ctx = ApplyFlow(s.ctx, a, s.G),
                           !._id = s._id + 1,
                           !.log = Append(s.log, a)]
      [] a.type = RESTORE -> a.state
      [] OTHER -> s

GameReducer(st, a) ==
    LET s == IF st = Undefined THEN initial ELSE st IN
    CASE a.type = MAKE_MOVE ->
            [s EXCEPT !.G = ApplyReducer(game, s.G, a.move, s.ctx),
                      !._id = s._id + 1,
                      !.log = Append(s.log, a)]
      [] a.type = END_TURN ->
            [s EXCEPT !.ctx = ApplyFlow(s.ctx, a, s.G),
                      !._id = s._id + 1,
                      !.log = Append(s.log, a)]
      [] a.type = RESTORE -> a.state
      [] OTHER -> s

----------------------------------------------------------------------------
(* createDispatchers(moveNames, store): one callable per name; the callable *)
(* of a name maps the arguments of a call to the action it hands to         *)
(* store.dispatch.                                                          *)

\* the move names the host asks dispatchers for
MoveNames == <<"add", "reset">>

\* the argument lists dispatchers are called with
ArgLists == {<<>>, <<5>>}

\* createDispatchers dropping the arguments of the call
createDispatchers_DropArgs(moveNames) ==
    [name \in {moveNames[i] : i \in 1..Len(moveNames)} |->
        [args \in ArgLists |-> makeMove([type |-> name, args |-> <<>>])]]

createDispatchers(moveNames) ==
    [name \in {moveNames[i] : i \in 1..Len(moveNames)} |->
        [args \in ArgLists |-> makeMove([type |-> name, args |-> args])]]

----------------------------------------------------------------------------
(* The host. *)

\* the actions that change a state
LoggedActions == {makeMove(m) : m \in Moves} \cup {[type |-> END_TURN]}

\* states at most k logged actions away from initial
RECURSIVE ReachedWithin(_)
ReachedWithin(k) ==
    IF k = 0 THEN {initial}
    ELSE LET R == ReachedWithin(k - 1) IN
         R \cup {GameReducer(s, a) : s \in R, a \in LoggedActions}

\* the states a RESTORE action may carry: snapshots of this game
RestoreStates == ReachedWithin(MaxRestoreLen) \cup {initial._initial}

Init ==
    /\ \E gameArg \in GameArgs, numPlayersArg \in 0..MaxPlayers :
          /\ params = [game |-> gameArg, numPlayers |-> numPlayersArg]
          /\ game = InstallFlow(GameOrDefault(gameArg))
          /\ numPlayers = NumPlayersOrDefault(numPlayersArg)
    /\ initial = InitialWithSnapshot(game, numPlayers)
    /\ prev = Undefined
    /\ action = [type |-> "@@redux/INIT"]
    /\ state = GameReducer(prev, action)
    /\ restored = FALSE
    /\ applied = <<>>
    /\ calls = <<>>

\* store.dispatch(a)
Dispatch(a) ==
    /\ prev' = state
    /\ action' = a
    /\ state' = GameReducer(state, a)
    /\ UNCHANGED <<params, game, numPlayers, initial>>

\* dispatchers[m.type](...m.args)
MakeMove ==
    \E m \in Moves :
        /\ state._id < MaxId
        /\ m.type \in DOMAIN createDispatchers(MoveNames)
        /\ LET a == createDispatchers(MoveNames)[m.type][m.args] IN
              /\ Dispatch(a)
              /\ applied' = IF restored THEN <<>> ELSE Append(applied, a)
        /\ calls' = IF restored THEN <<>>
                    ELSE Append(calls, [name |-> m.type, args |-> m.args])
        /\ UNCHANGED restored

EndTurn ==
    /\ state._id < MaxId
    /\ Dispatch([type |-> END_TURN])
    /\ applied' = IF restored THEN <<>> ELSE Append(applied, [type |-> END_TURN])
    /\ UNCHANGED <<restored, calls>>

Restore ==
    \E s2 \in RestoreStates :
        /\ Dispatch([type |-> RESTORE, state |-> s2])
        /\ restored' = TRUE
        /\ applied' = <<>>
        /\ calls' = <<>>

Unknown ==
    /\ Dispatch([type |-> "NOPE"])
    /\ UNCHANGED <<restored, applied, calls>>

Next == MakeMove \/ EndTurn \/ Restore \/ Unknown

Spec == Init /\ [][Next]_vars

----------------------------------------------------------------------------
(* Properties. *)

\* a reducer call on a state (not the store's initialising call) has happened
Stepped == prev # Undefined

IsPrefix(p, q) == Len(p) <= Len(q) /\ SubSeq(q, 1, Len(p)) = p

\* number of END_TURN entries of a sequence of actions
RECURSIVE CountEnds(_)
CountEnds(seq) ==
    IF seq = <<>> THEN 0
    ELSE (IF Head(seq).type = END_TURN THEN 1 ELSE 0) + CountEnds(Tail(seq))

\* the log grew by exactly one entry
OneAppended == /\ Len(state.log) = Len(prev.log) + 1
               /\ SubSeq(state.log, 1, Len(prev.log)) = prev.log

DefaultFlow == game.flow = "GameFlow"

\* C1 as stated: every action other than RESTORE increments _id by 1 and
\* appends exactly one entry to the log.
C1_Original ==
    (Stepped /\ action.type # RESTORE) =>
        (state._id = prev._id + 1 /\ OneAppended)

\* C1 amended: every MAKE_MOVE and END_TURN increments _id by 1 and appends
\* exactly one entry to the log; an action of any other type except RESTORE
\* leaves _id and log as they were.
C1_IdAndLogStep ==
    Stepped =>
        /\ action.type \in {MAKE_MOVE, END_TURN} =>
              (state._id = prev._id + 1 /\ OneAppended)
        /\ action.type \notin {MAKE_MOVE, END_TURN, RESTORE} =>
              (state._id = prev._id /\ state.log = prev.log)

C1_Witness ==
    /\ Stepped /\ action.type = END_TURN
    /\ prev._id >= 1 /\ state._id = prev._id + 1

\* C2: a MAKE_MOVE action a yields log = s.log followed by a, _id = s._id + 1,
\* and the ctx and _initial of s.
C2_MakeMoveFrame ==
    (Stepped /\ action.type = MAKE_MOVE) =>
        /\ state.log = Append(prev.log, action)
        /\ state._id = prev._id + 1
        /\ state.ctx = prev.ctx
        /\ state._initial = prev._initial

C2_Witness ==
    /\ Stepped /\ action.type = MAKE_MOVE
    /\ prev.log # <<>> /\ prev.ctx.turn >= 1
    /\ state.log[Len(state.log)] = action

\* C3: an END_TURN action a yields ctx = game.flow(s.ctx, a, s.G), the G and
\* _initial of s, log = s.log followed by a, and _id = s._id + 1.
C3_EndTurnFrame ==
    (Stepped /\ action.type = END_TURN) =>
        /\ state.ctx = (IF game.flow = "GameFlow"
                        THEN GameFlow(prev.ctx, action, prev.G)
                        ELSE ReverseFlow(prev.ctx, action, prev.G))
        /\ state.G = prev.G
        /\ state._initial = prev._initial
        /\ state.log = Append(prev.log, action)
        /\ state._id = prev._id + 1

C3_Witness ==
    /\ Stepped /\ action.type = END_TURN
    /\ game.flow = "reverse" /\ numPlayers = 3
    /\ prev.ctx.currentPlayer = "0" /\ state.ctx.currentPlayer = "2"

\* C4: RESTORE with state s2 yields exactly s2, whatever the current state.
C4_RestoreExact ==
    (Stepped /\ action.type = RESTORE) => state = action.state

C4_Witness ==
    /\ Stepped /\ action.type = RESTORE
    /\ prev._id > state._id /\ Len(prev.log) > Len(state.log)
    /\ prev.ctx # state.ctx

\* C5: an action of any other type returns the state unchanged.
C5_UnknownIdentity ==
    (Stepped /\ action.type \notin {MAKE_MOVE, END_TURN, RESTORE}) =>
        state = prev

C5_Witness ==
    /\ Stepped /\ action.type = "NOPE"
    /\ prev._id >= 2 /\ state = prev

\* C6: under the default turn flow each END_TURN moves currentPlayer to the
\* string of (currentPlayer + 1) mod numPlayers, a MAKE_MOVE leaves it alone,
\* and after k END_TURN actions from the initial state it is the string of
\* k mod numPlayers.
C6_RoundRobin ==
    DefaultFlow =>
        /\ (Stepped /\ action.type = END_TURN) =>
              state.ctx.currentPlayer =
                  NumToStr((StrToNum(prev.ctx.currentPlayer) + 1)
                              % prev.ctx.numPlayers)
        /\ (Stepped /\ action.type = MAKE_MOVE) =>
              state.ctx.currentPlayer = prev.ctx.currentPlayer
        /\ ~restored =>
              state.ctx.currentPlayer = NumToStr(CountEnds(applied) % numPlayers)

C6_Witness ==
    /\ DefaultFlow /\ ~restored /\ numPlayers = 3
    /\ CountEnds(applied) = 4 /\ Len(applied) > 4
    /\ state.ctx.currentPlayer = "1"

\* C7: ctx.currentPlayer is always the string of an integer in
\* 0 .. ctx.numPlayers - 1.
C7_ValidCurrentPlayer ==
    \E i \in 0..(state.ctx.numPlayers - 1) : state.ctx.currentPlayer = NumToStr(i)

C7_Witness ==
    /\ state.ctx.numPlayers = 3 /\ state.ctx.turn = 3
    /\ state.ctx.currentPlayer = "0" /\ DefaultFlow

\* C8 as stated: under the default turn flow a non-null winner stays non-null
\* through every MAKE_MOVE and END_TURN.
C8_Original ==
    (DefaultFlow /\ Stepped /\ action.type \in {MAKE_MOVE, END_TURN}
        /\ prev.ctx.winner # Null) => state.ctx.winner # Null

\* C8 amended: under the default turn flow a non-null winner is kept by every
\* MAKE_MOVE, and after an END_TURN it is non-null exactly when victory
\* returns non-null on the state before: it becomes null again when victory
\* returns null.
C8_WinnerFollowsVictory ==
    (DefaultFlow /\ Stepped /\ prev.ctx.winner # Null) =>
        /\ action.type = MAKE_MOVE => state.ctx.winner = prev.ctx.winner
        /\ action.type = END_TURN =>
              (state.ctx.winner # Null
                  <=> ApplyVictory(game, prev.G, prev.ctx) # Null)

C8_Witness ==
    /\ DefaultFlow /\ Stepped /\ action.type = END_TURN
    /\ prev.ctx.winner = "0" /\ state.ctx.winner = Null

C10_Original == Stepped => IsPrefix(prev.log, state.log)

\* C10 amended: across MAKE_MOVE, END_TURN and unknown actions the log before
\* is a prefix of the log after, and while no RESTORE has been processed the
\* log lists the applied MAKE_MOVE / END_TURN actions in application order;
\* RESTORE replaces the log by that of the restored state.
C10_LogAppendOnly ==
    /\ (Stepped /\ action.type # RESTORE) => IsPrefix(prev.log, state.log)
    /\ (Stepped /\ action.type = RESTORE) => state.log = action.state.log
    /\ ~restored => state.log = applied

C10_Witness ==
    /\ ~restored /\ Len(applied) >= 3
    /\ applied[1].type = MAKE_MOVE /\ applied[2].type = END_TURN
    /\ state.log = applied

\* the state as built by createGameReducer before any action
Fresh ==
    [G |-> ApplySetup(game, numPlayers),
     ctx |-> [turn |-> 0, currentPlayer |-> "0", numPlayers |-> numPlayers,
              winner |-> Null],
     log |-> <<>>,
     _id |-> 0,
     _initial |-> EmptyObject]

\* C11 as stated: _initial is the copy of the freshly built state and is the
\* same after any transition.
C11_Original ==
    /\ state._initial = Fresh
    /\ Stepped => state._initial = prev._initial

\* C11 amended: _initial is the copy of the freshly built state (G from setup,
\* ctx at turn 0, empty log, _id 0) and is the same after any number of
\* MAKE_MOVE, END_TURN and unknown actions; RESTORE replaces it by the
\* _initial of the restored state.
C11_InitialSnapshot ==
    /\ ~restored => state._initial = Fresh
    /\ (Stepped /\ action.type # RESTORE) => state._initial = prev._initial
    /\ (Stepped /\ action.type = RESTORE) => state._initial = action.state._initial

C11_Witness ==
    /\ ~restored /\ state._id >= 3 /\ state._initial = Fresh
    /\ state.ctx.turn >= 1 /\ state.G # state._initial.G

\* C12: the initial state has G = setup(n), ctx = {turn 0, currentPlayer "0",
\* numPlayers n, winner null}, _id 0 and an empty log, where n is the
\* numPlayers argument, or 2 when that is absent or falsy; a reducer call
\* without a prior state acts on this initial state.
C12_InitialState ==
    LET n == IF params.numPlayers = 0 THEN 2 ELSE params.numPlayers IN
    /\ initial.G = ApplySetup(game, n)
    /\ initial.ctx =
          [turn |-> 0, currentPlayer |-> "0", numPlayers |-> n, winner |-> Null]
    /\ initial._id = 0
    /\ initial.log = <<>>
    /\ prev = Undefined => state = initial

C12_Witness ==
    /\ prev = Undefined /\ params.numPlayers = 0
    /\ state.ctx.numPlayers = 2 /\ state._id = 0 /\ state.log = <<>>

\* C13: under the default turn flow the winner after an END_TURN is victory
\* evaluated on the G and ctx of the state before it; with the score game, an
\* END_TURN on a score of WinScore yields winner "0".
C13_WinnerIsVictory ==
    (DefaultFlow /\ Stepped /\ action.type = END_TURN) =>
        /\ state.ctx.winner = ApplyVictory(game, prev.G, prev.ctx)
        /\ (game.victory = "score" /\ prev.G.score = WinScore) =>
              state.ctx.winner = "0"

C13_Witness ==
    /\ DefaultFlow /\ Stepped /\ action.type = END_TURN
    /\ game.victory = "score" /\ prev.G.score = WinScore
    /\ prev.log[Len(prev.log)].type = MAKE_MOVE
    /\ prev.ctx.winner = Null /\ state.ctx.winner = "0"

IsMakeMove(a) == a.type = MAKE_MOVE

\* C14: there is exactly one dispatcher per name of moveNames, and the calls
\* name(args) made so far have submitted, in call order, exactly one MAKE_MOVE
\* action each, carrying {type: name, args}, whatever the name and the number
\* of arguments.
C14_Dispatchers ==
    /\ DOMAIN createDispatchers(MoveNames) =
          {MoveNames[i] : i \in 1..Len(MoveNames)}
    /\ ~restored =>
          LET sent == SelectSeq(applied, IsMakeMove) IN
          /\ Len(sent) = Len(calls)
          /\ \A i \in 1..Len(calls) :
                sent[i] = [type |-> MAKE_MOVE,
                           move |-> [type |-> calls[i].name,
                                     args |-> calls[i].args]]

C14_Witness ==
    /\ ~restored /\ Len(calls) >= 3 /\ game.names = <<>>
    /\ calls[1].name = "add" /\ Len(calls[1].args) = 1
    /\ calls[2].name = "reset" /\ Len(calls[2].args) = 0
    /\ Len(applied) > Len(calls)
    /\ action.type = MAKE_MOVE /\ action.move.type = calls[Len(calls)].name

\* C15 as stated: on MAKE_MOVE the new G is game.reducer applied to the G
\* before, the action that is appended to the log, and the ctx before.
C15_Original ==
    (Stepped /\ action.type = MAKE_MOVE) =>
        state.G = ApplyReducer(game, prev.G, state.log[Len(state.log)], prev.ctx)

\* C15 amended: on MAKE_MOVE the new G is game.reducer applied to the G
\* before, the move carried by the action (action.move, {type: name, args}),
\* and the ctx before; it is the whole action that is appended to the log.
C15_ReducerGetsMove ==
    (Stepped /\ action.type = MAKE_MOVE) =>
        /\ state.G = ApplyReducer(game, prev.G, action.move, prev.ctx)
        /\ state.log[Len(state.log)] = action

C15_Witness ==
    /\ Stepped /\ action.type = MAKE_MOVE /\ game.reducer = "score"
    /\ action.move.type = "add" /\ prev.G.score = 5 /\ state.G.score = 10

\* C16: in a state with a winner MAKE_MOVE still applies the reducer to G and
\* END_TURN still increments turn and advances currentPlayer; both append to
\* the log and increment _id.
C16_NoHaltOnWinner ==
    (Stepped /\ prev.ctx.winner # Null) =>
        /\ action.type = MAKE_MOVE =>
              /\ state.G = ApplyReducer(game, prev.G, action.move, prev.ctx)
              /\ state.log = Append(prev.log, action)
              /\ state._id = prev._id + 1
        /\ action.type = END_TURN =>
              /\ state.ctx.turn = prev.ctx.turn + 1
              /\ DefaultFlow =>
                    state.ctx.currentPlayer =
                        NumToStr((StrToNum(prev.ctx.currentPlayer) + 1)
                                    % prev.ctx.numPlayers)
              /\ state.log = Append(prev.log, action)
              /\ state._id = prev._id + 1

C16_Witness ==
    /\ Stepped /\ prev.ctx.winner = "0" /\ action.type = MAKE_MOVE
    /\ state.G.score = prev.G.score + 5 /\ state._id = prev._id + 1

\* C17: without RESTORE and under the default turn flow ctx.numPlayers stays
\* the numPlayers of construction, and END_TURN changes no field of ctx other
\* than currentPlayer, turn and winner.
C17_NumPlayersFixed ==
    (DefaultFlow /\ ~restored) =>
        /\ DOMAIN state.ctx = {"turn", "currentPlayer", "numPlayers", "winner"}
        /\ state.ctx.numPlayers = numPlayers
        /\ (Stepped /\ action.type = END_TURN) =>
              [state.ctx EXCEPT !.currentPlayer = prev.ctx.currentPlayer,
                                !.turn = prev.ctx.turn,
                                !.winner = prev.ctx.winner] = prev.ctx

C17_Witness ==
    /\ DefaultFlow /\ ~restored /\ Stepped /\ action.type = END_TURN
    /\ numPlayers = 3 /\ state.ctx.turn = 3 /\ state.ctx.numPlayers = 3
    /\ state.ctx.winner # prev.ctx.winner

\* C18: without RESTORE, _id equals the length of the log and the number of
\* MAKE_MOVE and END_TURN actions applied so far.
C18_IdIsLogLength ==
    ~restored =>
        /\ state._id = Len(state.log)
        /\ state._id = Len(applied)

C18_Witness ==
    /\ ~restored /\ Stepped /\ action.type = "NOPE"
    /\ state._id = 4 /\ Len(state.log) = 4 /\ state.ctx.turn = 2

\* C19: without RESTORE and under the default turn flow, ctx.turn is the
\* number of END_TURN entries of the log and ctx.currentPlayer is the string
\* of ctx.turn mod ctx.numPlayers.
C19_TurnCountsEnds ==
    (DefaultFlow /\ ~restored) =>
        /\ state.ctx.turn = CountEnds(state.log)
        /\ state.ctx.currentPlayer =
              NumToStr(state.ctx.turn % state.ctx.numPlayers)

C19_Witness ==
    /\ DefaultFlow /\ ~restored /\ state.ctx.numPlayers = 2
    /\ state.ctx.turn = 3 /\ state.ctx.currentPlayer = "1"
    /\ Len(state.log) = 5

\* the entries of a log applied in order through the reducer
RECURSIVE Replay(_, _)
Replay(s, log) ==
    IF log = <<>> THEN s
    ELSE Replay(GameReducer(s, Head(log)), Tail(log))

\* C20: without RESTORE, replaying the log of a state over its _initial
\* yields the G, ctx, log and _id of that state.
C20_ReplayReconstructs ==
    ~restored =>
        LET r == Replay(state._initial, state.log) IN
        /\ r.G = state.G
        /\ r.ctx = state.ctx
        /\ r.log = state.log
        /\ r._id = state._id

C20_Witness ==
    /\ ~restored /\ Len(state.log) = 5 /\ state.ctx.winner = "0"
    /\ state.ctx.turn = 2 /\ state.G.score = 15
    /\ Replay(state._initial, state.log).G = state.G

====
